---- MODULE Spec2Model ----
(***************************************************************************)
(* Account lifecycle of the contacts backend: registration, login, email   *)
(* confirmation, password reset, and the background mail tasks they queue. *)
(* The user table is a sequence of rows (a row's id is its index); each    *)
(* request handler of src/api/auth.py is one action.  Spec runs handlers    *)
(* one at a time; ConcSpec splits registration at its await between the    *)
(* email lookup and the commit, so that requests interleave.               *)
(***************************************************************************)
EXTENDS Integers, Sequences, FiniteSets, TLC

VARIABLES users, tasks, mail, now, resp, pending, cache, got, contacts, body

vars == <<users, tasks, mail, now, resp, pending, cache, got, contacts, body>>

----------------------------------------------------------------------------
(* Bounds of the model *)

MaxUsers == 2
MaxTasks == 1
MaxPending == 2
NumSalts == 1

(* Input alphabets *)
Usernames == {"alice", "bob"}
Emails == {"a@x.com", "b@x.com"}
Passwords == {"pw1", "pw2"}
Roles == {"user", "admin"}
Salts == 1..NumSalts

----------------------------------------------------------------------------
(* Values *)

\* Python None in a password column.
None == [kind |-> "none", pw |-> "", salt |-> 0]

\* A plaintext string in a position where a stored hash may also stand.
Str(p) == [kind |-> "plain", pw |-> p, salt |-> 0]

NoAvatar == "<null>"

NoUser ==
    [id |-> 0, username |-> "", email |-> "", password |-> None,
     is_verified |-> FALSE, role |-> "", avatar_url |-> NoAvatar,
     temp_password |-> None]

\* Attribute access on the result of a lookup: None has no attributes, a
\* User row has exactly its columns.
HasAttr(user, a) == user # NoUser /\ a \in DOMAIN user

----------------------------------------------------------------------------
(* Credential hasher: passlib CryptContext(schemes=["bcrypt"]) *)

get_password_hash(password, salt) ==
    [kind |-> "bcrypt", pw |-> password, salt |-> salt]

\* Mutant: any stored hash verifies, whatever the plaintext.
verify_password_any(plain_password, hashed_password) ==
    hashed_password # None

verify_password(plain_password, hashed_password) ==
    IF hashed_password = None
    THEN FALSE
    ELSE hashed_password.kind = "bcrypt" /\ hashed_password.pw = plain_password

----------------------------------------------------------------------------
(* Token service: python-jose jwt.encode / jwt.decode with the server secret *)

JWT_EXPIRATION_SECONDS == 3600
EmailTokenSeconds == 604800

\* The instants the clock visits: the start, and just past the expiry of every
\* token issued at the start.
Instants == {0, EmailTokenSeconds + 1}

NoSub == "<absent>"
NoTime == -1

NoToken == [sub |-> NoSub, exp |-> NoTime, iat |-> NoTime, sig |-> "none"]

\* Mutant: the expiry is taken before the issue time instead of after it.
create_access_token_past(sub, t) ==
    [sub |-> sub, exp |-> t - JWT_EXPIRATION_SECONDS, iat |-> NoTime,
     sig |-> "secret"]

create_access_token(sub, t) ==
    [sub |-> sub, exp |-> t + JWT_EXPIRATION_SECONDS, iat |-> NoTime,
     sig |-> "secret"]

\* create_access_token(data, expires_delta): `if expires_delta:` takes the
\* configured default when the argument is None or 0.
create_access_token_for(sub, t, expires_delta) ==
    [sub |-> sub,
     exp |-> t + (IF expires_delta # 0 THEN expires_delta ELSE JWT_EXPIRATION_SECONDS),
     iat |-> NoTime, sig |-> "secret"]

create_email_token(sub, t) ==
    [sub |-> sub, exp |-> t + EmailTokenSeconds, iat |-> t, sig |-> "secret"]

\* jwt.decode: JWTError on a bad signature or an exp in the past (exp < now);
\* a token without exp is not checked for expiry.
JWTError(token, t) ==
    \/ token.sig # "secret"
    \/ token.exp # NoTime /\ token.exp < t

\* The tokens a request may carry.
TokenExps == {NoTime, 0, EmailTokenSeconds}
TokenSubs == Usernames \cup Emails \cup {NoSub}
Tokens ==
    [sub : TokenSubs, exp : TokenExps, iat : {NoTime}, sig : {"secret"}]
    \cup [sub : Emails, exp : {EmailTokenSeconds}, iat : {NoTime}, sig : {"forged"}]

----------------------------------------------------------------------------
(* System of record: the users table behind UserRepository *)

\* select(User).where(User.email == email), scalar_one_or_none
get_user_by_email(rows, email) ==
    IF \E i \in 1..Len(rows) : rows[i].email = email
    THEN rows[CHOOSE i \in 1..Len(rows) : rows[i].email = email]
    ELSE NoUser

\* Mutant: the row comes back with the role it was registered with, as if the
\* principal itself had been cached.
get_user_by_id_as_registered(rows, id) ==
    IF \E i \in 1..Len(rows) : rows[i].id = id
    THEN LET row == rows[CHOOSE i \in 1..Len(rows) : rows[i].id = id]
         IN  [row EXCEPT !.role = IF row.username = "alice" THEN "admin" ELSE "user"]
    ELSE NoUser

\* select(User).where(User.id == int(user_id)), scalar_one_or_none
get_user_by_id(rows, id) ==
    IF \E i \in 1..Len(rows) : rows[i].id = id
    THEN rows[CHOOSE i \in 1..Len(rows) : rows[i].id = id]
    ELSE NoUser

\* select(User).where(User.username == username), scalar_one_or_none
get_user_by_username(rows, username) ==
    IF \E i \in 1..Len(rows) : rows[i].username = username
    THEN rows[CHOOSE i \in 1..Len(rows) : rows[i].username = username]
    ELSE NoUser

\* Mutant: only the email column is unique.
IntegrityError_email_only(rows, data) ==
    \E i \in 1..Len(rows) : rows[i].email = data.email

\* The unique constraints of the users table on username and on email: the
\* commit of a row that repeats either raises IntegrityError.
IntegrityError(rows, data) ==
    \E i \in 1..Len(rows) :
        rows[i].username = data.username \/ rows[i].email = data.email

\* The columns create_user does not set, at the defaults of the users table.
ColumnDefaults == [is_verified |-> FALSE, temp_password |-> None]

\* The row a commit of User(**data, password=..., avatar_url=None) stores,
\* under the next id.
NewUser(rows, data) ==
    [id |-> Len(rows) + 1, username |-> data.username, email |-> data.email,
     password |-> data.password, is_verified |-> ColumnDefaults.is_verified,
     role |-> data.role, avatar_url |-> NoAvatar,
     temp_password |-> ColumnDefaults.temp_password]

create_user(rows, data) == Append(rows, NewUser(rows, data))

\* The index of the row a lookup by email returns.
RowByEmail(rows, email) == CHOOSE i \in 1..Len(rows) : rows[i].email = email

\* Mutant: the update is not restricted to the row with this email.
set_user_verified_all(rows, email) ==
    [i \in DOMAIN rows |-> [rows[i] EXCEPT !.is_verified = TRUE]]

set_user_verified(rows, email) ==
    [rows EXCEPT ![RowByEmail(rows, email)].is_verified = TRUE]

\* Mutant: the update is not restricted to the row with this email.
update_avatar_url_all(rows, email, url) ==
    [i \in DOMAIN rows |-> [rows[i] EXCEPT !.avatar_url = url]]

update_avatar_url(rows, email, url) ==
    [rows EXCEPT ![RowByEmail(rows, email)].avatar_url = url]

\* Mutant: a changed password makes the email unverified again.
set_new_password_unverified(rows, password, email) ==
    [rows EXCEPT ![RowByEmail(rows, email)].password = password,
                 ![RowByEmail(rows, email)].is_verified = FALSE]

set_new_password(rows, password, email) ==
    [rows EXCEPT ![RowByEmail(rows, email)].password = password]

set_temp_password(rows, password, email) ==
    [rows EXCEPT ![RowByEmail(rows, email)].temp_password = password]

----------------------------------------------------------------------------
(* Session cache: the redis client of src/database/redis.py.  The key         *)
(* "curr_user:<username>" is modelled by the username; an entry holds the     *)
(* row id and the instant at which redis drops it.                            *)

CACHE_SECONDS == 900

NoEntry == [id |-> 0, until |-> 0]

\* The subjects a cache key is built from.
CacheKeys == Usernames \cup Emails

\* An entry that redis still holds at instant t.
Live(entries, key, t) ==
    key \in DOMAIN entries /\ entries[key].id # 0 /\ t < entries[key].until

\* Mutant: every get misses, as with the mock_redis of tests/conftest.py.
redis_get_miss(entries, key, t) ==
    0

\* redis_db.get(cache_key): the cached id, or 0 for None.
redis_get(entries, key, t) ==
    IF Live(entries, key, t) THEN entries[key].id ELSE 0

\* Mutant: the key is set only if redis does not hold it (SET ... NX).
redis_set_nx(entries, key, id, t) ==
    IF Live(entries, key, t)
    THEN entries
    ELSE [entries EXCEPT ![key] = [id |-> id, until |-> t + CACHE_SECONDS]]

\* redis_db.set(cache_key, str(user.id), ex=900)
redis_set(entries, key, id, t) ==
    [entries EXCEPT ![key] = [id |-> id, until |-> t + CACHE_SECONDS]]

\* Keys whose time to live has run out are gone.
redis_expire(entries, t) ==
    [key \in DOMAIN entries |->
        IF Live(entries, key, t) THEN entries[key] ELSE NoEntry]

----------------------------------------------------------------------------
(* Background mail tasks *)

Task(kind, email, username) == [kind |-> kind, email |-> email, username |-> username]

NoMail == [template |-> "", to |-> "", username |-> "", token |-> NoToken]

send_email_for_confirm(email, username, t) ==
    [template |-> "verify_email.html", to |-> email, username |-> username,
     token |-> create_email_token(email, t)]

\* Mutant: the reset mail carries a token that names its flow.
send_email_for_reset_password_scoped(email, username, t) ==
    [template |-> "reset_password.html", to |-> email, username |-> username,
     token |-> [create_email_token(email, t) EXCEPT !.sig = "secret:reset"]]

send_email_for_reset_password(email, username, t) ==
    [template |-> "reset_password.html", to |-> email, username |-> username,
     token |-> create_email_token(email, t)]

----------------------------------------------------------------------------
(* Responses *)

Response(op, status, detail, token) ==
    [op |-> op, status |-> status, detail |-> detail, token |-> token]

NoResponse == Response("", 0, "", NoToken)

----------------------------------------------------------------------------
(* Initial state: an empty users table, nothing queued, no request answered *)

\* The outcome of one call of the get_current_user dependency: the status, the
\* row returned, and which of the cache and the table it touched.
Resolved(status, user, touched) ==
    [status |-> status, user |-> user, touched |-> touched]

NoResult == Resolved(0, NoUser, {})

Init ==
    /\ users = <<>>
    /\ tasks = <<>>
    /\ mail = NoMail
    /\ now = 0
    /\ resp = NoResponse
    /\ pending = <<>>
    /\ cache = [key \in CacheKeys |-> NoEntry]
    /\ got = NoResult
    /\ contacts = <<>>
    /\ body = {}

\* Time passes.
Tick ==
    /\ \E t \in Instants : t > now /\ now' = t
    /\ UNCHANGED <<users, tasks, mail, resp, pending, cache, got, contacts, body>>

----------------------------------------------------------------------------
(* POST /auth/registration *)

\* The registration requests tried: every username with every email and every
\* password, alice asking for the admin role and everyone else for user.
RoleAsked(username) == IF username = "alice" THEN "admin" ELSE "user"

UserCreate ==
    {data \in [username : Usernames, email : Emails, password : Passwords,
               role : Roles] : data.role = RoleAsked(data.username)}

\* Mutant: line 47 is left out and the password is stored as it was sent.
RegisterCommit_plaintext(data, salt) ==
    LET hashed == [data EXCEPT !.password = Str(data.password)]
    IN  IF IntegrityError(users, hashed)
        THEN /\ resp' = Response("register", 500, "IntegrityError", NoToken)
             /\ UNCHANGED <<users, tasks>>
        ELSE /\ Len(users) < MaxUsers
             /\ Len(tasks) < MaxTasks
             /\ users' = create_user(users, hashed)
             /\ tasks' = Append(tasks, Task("confirm", data.email, data.username))
             /\ resp' = Response("register", 201, "created", NoToken)

\* Lines 47-53: hash the password, commit the row, queue the confirmation mail.
RegisterCommit(data, salt) ==
    LET hashed == [data EXCEPT !.password = get_password_hash(data.password, salt)]
    IN  IF IntegrityError(users, hashed)
        THEN /\ resp' = Response("register", 500, "IntegrityError", NoToken)
             /\ UNCHANGED <<users, tasks>>
        ELSE /\ Len(users) < MaxUsers
             /\ Len(tasks) < MaxTasks
             /\ users' = create_user(users, hashed)
             /\ tasks' = Append(tasks, Task("confirm", data.email, data.username))
             /\ resp' = Response("register", 201, "created", NoToken)

\* Mutant: the duplicate check of line 39 looks the username up, not the email.
register_user_by_username(data, salt) ==
    /\ IF get_user_by_username(users, data.username) # NoUser
       THEN /\ resp' = Response("register", 409, "User has already exist", NoToken)
            /\ UNCHANGED <<users, tasks>>
       ELSE RegisterCommit(data, salt)
    /\ UNCHANGED <<mail, now, pending, cache, got, contacts, body>>

register_user(data, salt) ==
    /\ IF get_user_by_email(users, data.email) # NoUser
       THEN /\ resp' = Response("register", 409, "User has already exist", NoToken)
            /\ UNCHANGED <<users, tasks>>
       ELSE RegisterCommit(data, salt)
    /\ UNCHANGED <<mail, now, pending, cache, got, contacts, body>>

----------------------------------------------------------------------------
(* POST /auth/login *)

\* Mutant: the verification check of lines 78-82 is left out.
login_user_unverified(username, password) ==
    LET user == get_user_by_username(users, username)
    IN  /\ resp' =
              IF ~HasAttr(user, "is_verified")
              THEN Response("login", 500, "AttributeError", NoToken)
              ELSE IF user = NoUser \/ ~verify_password(password, user.password)
              THEN Response("login", 401, "Incorrect email or password", NoToken)
              ELSE Response("login", 200, "bearer",
                            create_access_token(user.username, now))
        /\ UNCHANGED <<users, tasks, mail, now, pending, cache, got, contacts, body>>

\* Mutant: line 85 joins its two tests with `and` instead of `or`.
login_user_and(username, password) ==
    LET user == get_user_by_username(users, username)
    IN  /\ resp' =
              IF ~HasAttr(user, "is_verified")
              THEN Response("login", 500, "AttributeError", NoToken)
              ELSE IF ~user.is_verified
              THEN Response("login", 401, "email not verified", NoToken)
              ELSE IF user = NoUser /\ ~verify_password(password, user.password)
              THEN Response("login", 401, "Incorrect email or password", NoToken)
              ELSE Response("login", 200, "bearer",
                            create_access_token(user.username, now))
        /\ UNCHANGED <<users, tasks, mail, now, pending, cache, got, contacts, body>>

login_user(username, password) ==
    LET user == get_user_by_username(users, username)
    IN  /\ resp' =
              IF ~HasAttr(user, "is_verified")
              THEN Response("login", 500, "AttributeError", NoToken)
              ELSE IF ~user.is_verified
              THEN Response("login", 401, "email not verified", NoToken)
              ELSE IF user = NoUser \/ ~verify_password(password, user.password)
              THEN Response("login", 401, "Incorrect email or password", NoToken)
              ELSE Response("login", 200, "bearer",
                            create_access_token(user.username, now))
        /\ UNCHANGED <<users, tasks, mail, now, pending, cache, got, contacts, body>>

----------------------------------------------------------------------------
(* GET /auth/confirmed_email/{token} and its token decoding *)

\* get_email_from_token: 422 on JWTError; payload["sub"] of a payload without
\* sub raises KeyError, which nothing catches.
get_email_from_token(token, t) ==
    IF JWTError(token, t)
    THEN [status |-> 422, email |-> ""]
    ELSE IF token.sub = NoSub
    THEN [status |-> 500, email |-> ""]
    ELSE [status |-> 200, email |-> token.sub]

confirmed_email(token) ==
    LET decoded == get_email_from_token(token, now)
        user == get_user_by_email(users, decoded.email)
    IN  /\ IF decoded.status # 200
           THEN /\ resp' = Response("confirm", decoded.status, "invalid token", NoToken)
                /\ UNCHANGED users
           ELSE IF user = NoUser
           THEN /\ resp' = Response("confirm", 400, "Verification error", NoToken)
                /\ UNCHANGED users
           ELSE IF user.is_verified
           THEN /\ resp' = Response("confirm", 200, "already confirmed", NoToken)
                /\ UNCHANGED users
           ELSE /\ users' = set_user_verified(users, decoded.email)
                /\ resp' = Response("confirm", 200, "confirmed", NoToken)
        /\ UNCHANGED <<tasks, mail, now, pending, cache, got, contacts, body>>

----------------------------------------------------------------------------
(* POST /auth/request_email *)

request_email(email) ==
    LET user == get_user_by_email(users, email)
    IN  /\ IF ~HasAttr(user, "confirmed")
           THEN /\ resp' = Response("request_email", 500, "AttributeError", NoToken)
                /\ UNCHANGED tasks
           ELSE IF user.confirmed
           THEN /\ resp' = Response("request_email", 200, "already confirmed", NoToken)
                /\ UNCHANGED tasks
           ELSE /\ Len(tasks) < MaxTasks
                /\ tasks' = Append(tasks, Task("confirm", user.email, user.username))
                /\ resp' = Response("request_email", 200, "check your email", NoToken)
        /\ UNCHANGED <<users, mail, now, pending, cache, got, contacts, body>>

----------------------------------------------------------------------------
(* POST /auth/forgot_password *)

\* Mutant: the hasher is instantiated and the call of line 225 returns a hash.
HashOnClassWorks == FALSE

\* Line 225 calls Hash.get_password_hash(data.new_password) on the class, not on
\* an instance: the argument binds to self, `password` is missing, and the
\* call raises TypeError before anything is hashed.
HashOnClassRaises == TRUE

UserForgotPassword ==
    [user_data : Usernames \cup Emails, old_password : Passwords,
     new_password : Passwords]

forgot_password(limited, data) ==
    LET by_email == get_user_by_email(users, data.user_data)
        user == IF by_email # NoUser
                THEN by_email
                ELSE get_user_by_username(users, data.user_data)
    IN  /\ IF limited
           THEN /\ resp' = Response("forgot_password", 429, "rate limit", NoToken)
                /\ UNCHANGED <<users, tasks>>
           ELSE IF user = NoUser
           THEN /\ resp' = Response("forgot_password", 404, "User does not exist", NoToken)
                /\ UNCHANGED <<users, tasks>>
           ELSE IF ~verify_password(data.old_password, user.password)
           THEN /\ resp' = Response("forgot_password", 400, "Incorrect old password", NoToken)
                /\ UNCHANGED <<users, tasks>>
           ELSE IF Str(data.new_password) = user.password
           THEN /\ resp' = Response("forgot_password", 400, "same password", NoToken)
                /\ UNCHANGED <<users, tasks>>
           ELSE IF HashOnClassRaises
           THEN /\ resp' = Response("forgot_password", 500, "TypeError", NoToken)
                /\ UNCHANGED <<users, tasks>>
           ELSE /\ Len(tasks) < MaxTasks
                /\ \E salt \in Salts :
                      users' = set_temp_password(
                          users, get_password_hash(data.new_password, salt), user.email)
                /\ tasks' = Append(tasks, Task("reset", user.email, user.username))
                /\ resp' = Response("forgot_password", 200, "check your email", NoToken)
        /\ UNCHANGED <<mail, now, pending, cache, got, contacts, body>>

----------------------------------------------------------------------------
(* GET /auth/reset_password/{token} *)

\* Mutant: the two columns are exchanged instead of one being promoted.
promote_temp_password_swap(rows, user) ==
    set_temp_password(
        set_new_password(rows, user.temp_password, user.email),
        user.password, user.email)

\* Lines 256-257: set_new_password(user.temp_password), set_temp_password(None).
promote_temp_password(rows, user) ==
    set_temp_password(
        set_new_password(rows, user.temp_password, user.email),
        None, user.email)

reset_password(token) ==
    LET decoded == get_email_from_token(token, now)
        user == get_user_by_email(users, decoded.email)
    IN  /\ IF decoded.status # 200
           THEN /\ resp' = Response("reset_password", decoded.status, "invalid token", NoToken)
                /\ UNCHANGED users
           ELSE IF user = NoUser
           THEN /\ resp' = Response("reset_password", 400, "Verification error", NoToken)
                /\ UNCHANGED users
           ELSE /\ users' = promote_temp_password(users, user)
                /\ resp' = Response("reset_password", 200, "Password successfully changed", NoToken)
        /\ UNCHANGED <<tasks, mail, now, pending, cache, got, contacts, body>>

----------------------------------------------------------------------------
(* The background task at the head of the queue runs: the message is built    *)
(* and handed to the mail server, whose ConnectionErrors are printed and lost *)

\* Mutant: a failed delivery is surfaced as the error of the last request.
run_task_surfaced(delivered) ==
    /\ tasks # <<>>
    /\ LET task == Head(tasks)
           message == IF task.kind = "confirm"
                      THEN send_email_for_confirm(task.email, task.username, now)
                      ELSE send_email_for_reset_password(task.email, task.username, now)
       IN  mail' = IF delivered THEN message ELSE mail
    /\ tasks' = Tail(tasks)
    /\ resp' = IF delivered THEN resp
               ELSE Response(resp.op, 500, "ConnectionErrors", NoToken)
    /\ UNCHANGED <<users, now, pending, cache, got, contacts, body>>

run_task(delivered) ==
    /\ tasks # <<>>
    /\ LET task == Head(tasks)
           message == IF task.kind = "confirm"
                      THEN send_email_for_confirm(task.email, task.username, now)
                      ELSE send_email_for_reset_password(task.email, task.username, now)
       IN  mail' = IF delivered THEN message ELSE mail
    /\ tasks' = Tail(tasks)
    /\ UNCHANGED <<users, now, resp, pending, cache, got, contacts, body>>

----------------------------------------------------------------------------
(* Requests, one at a time *)

\* The tokens a request can present: any token, and the one last mailed.
Presented == Tokens \cup {mail.token}

Next ==
    \/ Tick
    \/ \E data \in UserCreate, salt \in Salts : register_user(data, salt)
    \/ \E username \in Usernames, password \in Passwords : login_user(username, password)
    \/ \E token \in Presented : confirmed_email(token)
    \/ \E email \in Emails : request_email(email)
    \/ \E limited \in BOOLEAN, data \in UserForgotPassword :
          forgot_password(limited, data)
    \/ \E token \in Presented : reset_password(token)
    \/ \E delivered \in BOOLEAN : run_task(delivered)

Spec == Init /\ [][Next]_vars

----------------------------------------------------------------------------
(* Concurrent registration: a request is suspended at the await between its   *)
(* email lookup (line 39) and its commit (line 48), and others run meanwhile. *)

RemoveAt(seq, i) == SubSeq(seq, 1, i - 1) \o SubSeq(seq, i + 1, Len(seq))

register_begin(data) ==
    /\ IF get_user_by_email(users, data.email) # NoUser
       THEN /\ resp' = Response("register", 409, "User has already exist", NoToken)
            /\ UNCHANGED pending
       ELSE /\ Len(pending) < MaxPending
            /\ pending' = Append(pending, data)
            /\ UNCHANGED resp
    /\ UNCHANGED <<users, tasks, mail, now, cache, got, contacts, body>>

register_end(i, salt) ==
    /\ RegisterCommit(pending[i], salt)
    /\ pending' = RemoveAt(pending, i)
    /\ UNCHANGED <<mail, now, cache, got, contacts, body>>

ConcNext ==
    \/ \E data \in UserCreate : register_begin(data)
    \/ \E i \in 1..Len(pending), salt \in Salts : register_end(i, salt)
    \/ \E delivered \in BOOLEAN : run_task(delivered)

ConcSpec == Init /\ [][ConcNext]_vars

----------------------------------------------------------------------------
(* Concurrent password reset: the reset route commits twice, in                *)
(* set_new_password (line 256) and in set_temp_password (line 257); between the *)
(* two the request is suspended, others run, and it may be cancelled.          *)

\* Lines 247-256: decode, look the row up, commit password = temp_password.
reset_begin(token) ==
    LET decoded == get_email_from_token(token, now)
        user == get_user_by_email(users, decoded.email)
    IN  /\ IF decoded.status # 200
           THEN /\ resp' = Response("reset_password", decoded.status, "invalid token", NoToken)
                /\ UNCHANGED <<users, pending>>
           ELSE IF user = NoUser
           THEN /\ resp' = Response("reset_password", 400, "Verification error", NoToken)
                /\ UNCHANGED <<users, pending>>
           ELSE /\ Len(pending) < MaxPending
                /\ users' = set_new_password(users, user.temp_password, user.email)
                /\ pending' = Append(pending, [email |-> user.email])
                /\ UNCHANGED resp
        /\ UNCHANGED <<tasks, mail, now, cache, got, contacts, body>>

\* Lines 257-258: commit temp_password = None and answer.
reset_end(i) ==
    /\ users' = set_temp_password(users, None, pending[i].email)
    /\ resp' = Response("reset_password", 200, "Password successfully changed", NoToken)
    /\ pending' = RemoveAt(pending, i)
    /\ UNCHANGED <<tasks, mail, now, cache, got, contacts, body>>

\* The request is cancelled while suspended between its two commits.
reset_cancel(i) ==
    /\ pending' = RemoveAt(pending, i)
    /\ UNCHANGED <<users, tasks, mail, now, resp, cache, got, contacts, body>>

ResetNext ==
    \/ Tick
    \/ \E data \in UserCreate, salt \in Salts : register_user(data, salt)
    \/ \E delivered \in BOOLEAN : run_task(delivered)
    \/ \E limited \in BOOLEAN, data \in UserForgotPassword :
          forgot_password(limited, data)
    \/ \E token \in Presented : reset_begin(token)
    \/ \E i \in 1..Len(pending) : reset_end(i)
    \/ \E i \in 1..Len(pending) : reset_cancel(i)

ResetSpec == Init /\ [][ResetNext]_vars

----------------------------------------------------------------------------
(* Identity resolver: the get_current_user dependency of src/services/auth.py *)

\* The instants the clock visits around a cache entry written at the start:
\* the start, the last instant the entry lives, the instant it is dropped, and
\* just past the expiry of an access token issued at the start.
ResolverInstants ==
    {0, CACHE_SECONDS - 1, CACHE_SECONDS, JWT_EXPIRATION_SECONDS + 1}

ResolverTick ==
    /\ \E t \in ResolverInstants :
          /\ t > now
          /\ now' = t
          /\ cache' = redis_expire(cache, t)
    /\ UNCHANGED <<users, tasks, mail, resp, pending, got, contacts, body>>

\* The bearer tokens a request may carry: signed by the server for a username,
\* an email, an empty subject or none, without expiry, expiring at the start,
\* or expiring when an access token issued at the start does; and one forged.
BearerSubs == Usernames \cup {"a@x.com", "", NoSub}
BearerTokens ==
    [sub : BearerSubs, exp : {NoTime, 0, JWT_EXPIRATION_SECONDS},
     iat : {NoTime}, sig : {"secret"}]
    \cup [sub : {"alice"}, exp : {JWT_EXPIRATION_SECONDS}, iat : {NoTime},
          sig : {"forged"}]

\* Mutant: the expiry of the token is not looked at.
TokenRejected_signature_only(token, t) ==
    \/ token.sig # "secret"
    \/ token.sub = NoSub
    \/ token.sub = ""

\* Lines 114-124: jwt.decode raises JWTError, or the payload has no subject or
\* an empty one; both end in credentials_exception.
TokenRejected(token, t) ==
    \/ JWTError(token, t)
    \/ token.sub = NoSub
    \/ token.sub = ""

\* The body of get_current_user(token, db), as run for a request that depends
\* on it; get_raises and set_raises say whether the cache backend fails on
\* redis_db.get (line 128) and on redis_db.set (line 147).
Depends_get_current_user(token, get_raises, set_raises) ==
    LET username == token.sub
        user_id == redis_get(cache, username, now)
        cached == IF user_id # 0 THEN get_user_by_id(users, user_id) ELSE NoUser
        user == get_user_by_username(users, username)
        looked == {"cache_get", "by_username"}
                      \cup (IF user_id # 0 THEN {"by_id"} ELSE {})
    IN  IF TokenRejected(token, now)
           THEN /\ got' = Resolved(401, NoUser, {})
                /\ UNCHANGED cache
           ELSE IF get_raises
           THEN /\ got' = Resolved(500, NoUser, {"cache_get"})
                /\ UNCHANGED cache
           ELSE IF cached # NoUser
           THEN /\ got' = Resolved(200, cached, {"cache_get", "by_id"})
                /\ UNCHANGED cache
           ELSE IF user = NoUser
           THEN /\ got' = Resolved(401, NoUser, looked)
                /\ UNCHANGED cache
           ELSE IF set_raises
           THEN /\ got' = Resolved(500, NoUser, looked \cup {"cache_set"})
                /\ UNCHANGED cache
           ELSE /\ got' = Resolved(200, user, looked \cup {"cache_set"})
                /\ cache' = redis_set(cache, username, user.id, now)

\* A request that does nothing but resolve its bearer token.
get_current_user(token, get_raises, set_raises) ==
    /\ Depends_get_current_user(token, get_raises, set_raises)
    /\ UNCHANGED <<users, tasks, mail, now, resp, pending, contacts, body>>

\* Registration and mail delivery fill the table; the resolver runs against a
\* cache backend that answers.
ResolverNext ==
    \/ ResolverTick
    \/ \E data \in UserCreate, salt \in Salts : register_user(data, salt)
    \/ \E delivered \in BOOLEAN : run_task(delivered)
    \/ \E token \in BearerTokens : get_current_user(token, FALSE, FALSE)

ResolverSpec == Init /\ [][ResolverNext]_vars

\* The same, with a cache backend that may raise on any get or set.
FaultNext ==
    \/ ResolverTick
    \/ \E data \in UserCreate, salt \in Salts : register_user(data, salt)
    \/ \E delivered \in BOOLEAN : run_task(delivered)
    \/ \E token \in BearerTokens, get_raises \in BOOLEAN, set_raises \in BOOLEAN :
          get_current_user(token, get_raises, set_raises)

FaultSpec == Init /\ [][FaultNext]_vars

\* The registrations tried where the table is large for other reasons: one
\* request for each username.
AdminUserCreate ==
    {data \in UserCreate :
        /\ data.password = "pw1"
        /\ data.email = (IF data.username = "alice" THEN "a@x.com" ELSE "b@x.com")}

----------------------------------------------------------------------------
(* Token expiry: issued tokens presented at, and just past, their expiry *)

ExpiryInstants ==
    {0, JWT_EXPIRATION_SECONDS, JWT_EXPIRATION_SECONDS + 1,
     EmailTokenSeconds, EmailTokenSeconds + 1}

ExpiryTick ==
    /\ \E t \in ExpiryInstants :
          /\ t > now
          /\ now' = t
          /\ cache' = redis_expire(cache, t)
    /\ UNCHANGED <<users, tasks, mail, resp, pending, got, contacts, body>>

\* Only tokens the server issued are presented: the one of the last login and
\* the one of the last mail.
ExpiryNext ==
    \/ ExpiryTick
    \/ \E data \in AdminUserCreate, salt \in Salts : register_user(data, salt)
    \/ run_task(TRUE)
    \/ \E username \in Usernames, password \in Passwords : login_user(username, password)
    \/ confirmed_email(mail.token)
    \/ reset_password(mail.token)
    \/ get_current_user(resp.token, FALSE, FALSE)

ExpirySpec == Init /\ [][ExpiryNext]_vars

----------------------------------------------------------------------------
(* Tokens of one flow presented to another: usernames shaped like emails *)

\* UserCreate.username is a str: a username may be another principal's email.
EmailNamedUserCreate ==
    { [username |-> "alice", email |-> "a@x.com", password |-> "pw1",
       role |-> RoleAsked("alice")],
      [username |-> "a@x.com", email |-> "b@x.com", password |-> "pw1",
       role |-> RoleAsked("a@x.com")] }

\* Registration, confirmation and login of such principals, and the resolver
\* given the token of the last mail or of the last login.
ConfusionNext ==
    \/ \E data \in EmailNamedUserCreate, salt \in Salts : register_user(data, salt)
    \/ run_task(TRUE)
    \/ confirmed_email(mail.token)
    \/ \E data \in EmailNamedUserCreate : login_user(data.username, data.password)
    \/ get_current_user(mail.token, FALSE, FALSE)
    \/ get_current_user(resp.token, FALSE, FALSE)

ConfusionSpec == Init /\ [][ConfusionNext]_vars

----------------------------------------------------------------------------
(* Access control gate and PATCH /users/me/avatar *)

\* Mutant: the gate lets every resolved principal through.
get_current_admin_user_any(current_user) ==
    [status |-> 200, user |-> current_user]

\* get_current_admin_user(current_user): 403 unless the role is ADMIN.
get_current_admin_user(current_user) ==
    IF current_user.role # "admin"
    THEN [status |-> 403, user |-> NoUser]
    ELSE [status |-> 200, user |-> current_user]

\* The URLs the upload service returns for an uploaded file.
AvatarUrls == {"https://cdn/avatar.png"}

\* update_avatar_user: the dependencies resolve the token and check the role,
\* then the body stores the URL of the uploaded file in the principal's row.
update_avatar_user(token, avatar_url) ==
    /\ Depends_get_current_user(token, FALSE, FALSE)
    /\ LET admin == get_current_admin_user(got'.user)
       IN  IF got'.status # 200
           THEN /\ resp' = Response("update_avatar", got'.status,
                                    "Could not validate credentials", NoToken)
                /\ UNCHANGED users
           ELSE IF admin.status # 200
           THEN /\ resp' = Response("update_avatar", admin.status, "forbidden", NoToken)
                /\ UNCHANGED users
           ELSE /\ users' = update_avatar_url(users, admin.user.email, avatar_url)
                /\ resp' = Response("update_avatar", 200, "updated", NoToken)
    /\ UNCHANGED <<tasks, mail, now, pending, contacts, body>>

GateNext ==
    \/ ResolverTick
    \/ \E data \in AdminUserCreate, salt \in Salts : register_user(data, salt)
    \/ run_task(TRUE)
    \/ \E token \in BearerTokens : get_current_user(token, FALSE, FALSE)
    \/ \E token \in BearerTokens, avatar_url \in AvatarUrls :
          update_avatar_user(token, avatar_url)

GateSpec == Init /\ [][GateNext]_vars

----------------------------------------------------------------------------
(* The table changed by other means than this API *)

\* A row is renamed in the table by other means than this API (no handler
\* changes a username); the unique constraint on username holds.
db_rename(i, username) ==
    /\ users[i] # NoUser
    /\ get_user_by_username(users, username) = NoUser
    /\ users' = [users EXCEPT ![i].username = username]
    /\ UNCHANGED <<tasks, mail, now, resp, pending, cache, got, contacts, body>>

\* A row is deleted from the table by other means than this API; its id is
\* not given out again.
db_delete(i) ==
    /\ users[i] # NoUser
    /\ users' = [users EXCEPT ![i] = NoUser]
    /\ UNCHANGED <<tasks, mail, now, resp, pending, cache, got, contacts, body>>

\* The role of a row is changed in the table by other means than this API.
db_set_role(i, role) ==
    /\ users[i] # NoUser
    /\ users[i].role # role
    /\ users' = [users EXCEPT ![i].role = role]
    /\ UNCHANGED <<tasks, mail, now, resp, pending, cache, got, contacts, body>>

\* The resolver and the admin gate over a table whose roles and verification
\* flags change, within the life of the cache entries.
RoleNext ==
    \/ \E data \in AdminUserCreate, salt \in Salts : register_user(data, salt)
    \/ run_task(TRUE)
    \/ confirmed_email(mail.token)
    \/ \E token \in BearerTokens : get_current_user(token, FALSE, FALSE)
    \/ \E token \in BearerTokens, avatar_url \in AvatarUrls :
          update_avatar_user(token, avatar_url)
    \/ \E i \in 1..Len(users), role \in Roles : db_set_role(i, role)

RoleSpec == Init /\ [][RoleNext]_vars

\* The resolver over a table whose rows are also renamed and deleted.
AdminNext ==
    \/ ResolverTick
    \/ \E data \in AdminUserCreate, salt \in Salts : register_user(data, salt)
    \/ run_task(TRUE)
    \/ \E token \in BearerTokens : get_current_user(token, FALSE, FALSE)
    \/ \E i \in 1..Len(users), username \in Usernames : db_rename(i, username)
    \/ \E i \in 1..Len(users) : db_delete(i)

AdminSpec == Init /\ [][AdminNext]_vars

\* The resolver over a table whose rows are deleted and whose usernames are
\* registered again.
StaleNext ==
    \/ ResolverTick
    \/ \E data \in AdminUserCreate, salt \in Salts : register_user(data, salt)
    \/ run_task(TRUE)
    \/ \E token \in BearerTokens : get_current_user(token, FALSE, FALSE)
    \/ \E i \in 1..Len(users) : db_delete(i)

StaleSpec == Init /\ [][StaleNext]_vars

----------------------------------------------------------------------------
(* Contacts: the routes of src/api/contacts.py over the contacts table behind *)
(* ContactRepository.  Text columns are sequences of characters, so that the  *)
(* ilike filter is computed; surname, phone and info are searched and stored  *)
(* as name is and are left out.                                               *)

\* The number of contacts ever created.
MaxContacts == 2

\* No row: the result None of scalar_one_or_none, and the place of a deleted row.
NoContact == [id |-> 0, user_id |-> 0, name |-> <<>>, email |-> <<>>, birthday |-> 0]

\* The bodies of POST /contacts/ that are sent; birthdays are days from the
\* start of the clock.
ContactCreate ==
    { [name |-> <<"J", "o">>, email |-> <<"j", "@", "x">>, birthday |-> 3],
      [name |-> <<"A", "n">>, email |-> <<"a", "@", "x">>, birthday |-> 30] }

\* The bodies of PATCH /contacts/{contact_id} that are sent.
ContactUpdate ==
    { [name |-> <<"J", "o", "e">>, email |-> <<"j", "@", "x">>, birthday |-> 3] }

\* The values of the query parameter q: absent or empty, and three patterns.
NoQuery == <<>>
Queries == {NoQuery, <<"j">>, <<"N">>, <<"@">>}

\* The contact ids asked for: every id given out and one that never is.
ContactIds == 1..(MaxContacts + 1)

Lower(c) == CASE c = "J" -> "j" [] c = "A" -> "a" [] c = "N" -> "n" [] OTHER -> c

lower(text) == [i \in 1..Len(text) |-> Lower(text[i])]

\* column.ilike(f"%{query}%"): the query occurs in the column, case ignored.
ilike(column, query) ==
    \E i \in 0..(Len(column) - Len(query)) :
        SubSeq(lower(column), i + 1, i + Len(query)) = lower(query)

\* The rows of the table.
Rows(rows) == {rows[i] : i \in 1..Len(rows)} \ {NoContact}

\* ContactRepository.create: Contact(**data, user=user), add, commit, refresh.
ContactRepository_create(rows, data, user) ==
    Append(rows, [id |-> Len(rows) + 1, user_id |-> user.id, name |-> data.name,
                  email |-> data.email, birthday |-> data.birthday])

\* ContactRepository.get_all
get_all(rows, user, query) ==
    {contact \in Rows(rows) :
        /\ contact.user_id = user.id
        /\ query # NoQuery => ilike(contact.name, query) \/ ilike(contact.email, query)}

\* ContactRepository.get_by_id: select(Contact).where(Contact.id == contact_id)
get_by_id(rows, contact_id) ==
    IF contact_id \in 1..Len(rows) THEN rows[contact_id] ELSE NoContact

\* ContactRepository.update: setattr for every key of data, commit.
ContactRepository_update(rows, contact, data) ==
    [rows EXCEPT ![contact.id] =
        [contact EXCEPT !.name = data.name, !.email = data.email,
                        !.birthday = data.birthday]]

\* Mutant: the row is left in the table.
ContactRepository_delete_kept(rows, contact) == rows

\* ContactRepository.delete: session.delete(contact), commit.
ContactRepository_delete(rows, contact) ==
    [rows EXCEPT ![contact.id] = NoContact]

\* ContactRepository.upcoming_birthdays: birthday between today and today + 7.
upcoming_birthdays(rows, today) ==
    {contact \in Rows(rows) : contact.birthday \in today..(today + 7)}

\* date.today(), in days from the start of the clock.
Today == now \div 86400

\* The bearer tokens sent with a request to the contacts routes: one signed by
\* the server for each username, a forged one, and none.
RequestTokens ==
    {token \in BearerTokens :
        token.sub \in Usernames /\ token.exp = JWT_EXPIRATION_SECONDS}
    \cup {NoToken}

\* POST /contacts/
create(token, data) ==
    /\ Depends_get_current_user(token, FALSE, FALSE)
    /\ IF got'.status # 200
       THEN /\ resp' = Response("create_contact", got'.status,
                                "Could not validate credentials", NoToken)
            /\ body' = {}
            /\ UNCHANGED contacts
       ELSE /\ Len(contacts) < MaxContacts
            /\ contacts' = ContactRepository_create(contacts, data, got'.user)
            /\ body' = {contacts'[Len(contacts')]}
            /\ resp' = Response("create_contact", 201, "created", NoToken)
    /\ UNCHANGED <<users, tasks, mail, now, pending>>

\* GET /contacts/
list_contacts(token, q) ==
    /\ Depends_get_current_user(token, FALSE, FALSE)
    /\ IF got'.status # 200
       THEN /\ resp' = Response("list_contacts", got'.status,
                                "Could not validate credentials", NoToken)
            /\ body' = {}
       ELSE /\ body' = get_all(contacts, got'.user, q)
            /\ resp' = Response("list_contacts", 200, "ok", NoToken)
    /\ UNCHANGED <<users, tasks, mail, now, pending, contacts>>

\* GET /contacts/{contact_id}.  The route has no dependency on
\* get_current_user: the token sent with the request is not looked at.
get(token, contact_id) ==
    LET contact == get_by_id(contacts, contact_id)
    IN  /\ IF contact = NoContact
           THEN /\ resp' = Response("get_contact", 404, "Not Found", NoToken)
                /\ body' = {}
           ELSE /\ resp' = Response("get_contact", 200, "ok", NoToken)
                /\ body' = {contact}
        /\ UNCHANGED <<users, tasks, mail, now, pending, cache, got, contacts>>

\* PATCH /contacts/{contact_id}; the token is not looked at.
update(token, contact_id, data) ==
    LET contact == get_by_id(contacts, contact_id)
    IN  /\ IF contact = NoContact
           THEN /\ resp' = Response("update_contact", 404, "Not Found", NoToken)
                /\ body' = {}
                /\ UNCHANGED contacts
           ELSE /\ contacts' = ContactRepository_update(contacts, contact, data)
                /\ resp' = Response("update_contact", 200, "ok", NoToken)
                /\ body' = {contacts'[contact.id]}
        /\ UNCHANGED <<users, tasks, mail, now, pending, cache, got>>

\* DELETE /contacts/{contact_id}; the token is not looked at.
delete(token, contact_id) ==
    LET contact == get_by_id(contacts, contact_id)
    IN  /\ IF contact = NoContact
           THEN /\ resp' = Response("delete_contact", 404, "Not Found", NoToken)
                /\ UNCHANGED contacts
           ELSE /\ contacts' = ContactRepository_delete(contacts, contact)
                /\ resp' = Response("delete_contact", 200, "deleted", NoToken)
        /\ body' = {}
        /\ UNCHANGED <<users, tasks, mail, now, pending, cache, got>>

\* GET /contacts/birthdays/next; the token is not looked at.
birthdays(token) ==
    /\ resp' = Response("birthdays", 200, "ok", NoToken)
    /\ body' = upcoming_birthdays(contacts, Today)
    /\ UNCHANGED <<users, tasks, mail, now, pending, cache, got, contacts>>

\* Every lifecycle request and the avatar update, at one instant.
LifecycleNext ==
    \/ \E data \in AdminUserCreate, salt \in Salts : register_user(data, salt)
    \/ run_task(TRUE)
    \/ \E username \in Usernames, password \in Passwords : login_user(username, password)
    \/ \E token \in Presented : confirmed_email(token)
    \/ \E email \in Emails : request_email(email)
    \/ \E data \in UserForgotPassword : forgot_password(FALSE, data)
    \/ \E token \in Presented : reset_password(token)
    \/ \E token \in RequestTokens, avatar_url \in AvatarUrls :
          update_avatar_user(token, avatar_url)

LifecycleSpec == Init /\ [][LifecycleNext]_vars

\* Registered principals and requests to the contacts routes.  The routes
\* that do not look at the token are sent none: any other token gives the same
\* step.
ContactsNext ==
    \/ \E data \in AdminUserCreate, salt \in Salts : register_user(data, salt)
    \/ run_task(TRUE)
    \/ \E token \in RequestTokens, data \in ContactCreate : create(token, data)
    \/ \E token \in RequestTokens, q \in Queries : list_contacts(token, q)
    \/ \E contact_id \in ContactIds : get(NoToken, contact_id)
    \/ \E contact_id \in ContactIds, data \in ContactUpdate :
          update(NoToken, contact_id, data)
    \/ \E contact_id \in ContactIds : delete(NoToken, contact_id)
    \/ birthdays(NoToken)

ContactsSpec == Init /\ [][ContactsNext]_vars

\* The store of one principal: contacts created, read, changed and deleted.
StoreNext ==
    \/ \E data \in {d \in AdminUserCreate : d.username = "alice"} :
          register_user(data, 1)
    \/ \E token \in {t \in RequestTokens : t.sig # "forged"}, data \in ContactCreate :
          create(token, data)
    \/ \E contact_id \in ContactIds : get(NoToken, contact_id)
    \/ \E contact_id \in ContactIds, data \in ContactUpdate :
          update(NoToken, contact_id, data)
    \/ \E contact_id \in ContactIds : delete(NoToken, contact_id)

StoreSpec == Init /\ [][StoreNext]_vars

----------------------------------------------------------------------------
(* Login *)

\* The stored password of a row is the hash of this plaintext.
IsHashOf(hashed, plain) == hashed.kind = "bcrypt" /\ hashed.pw = plain

\* C1: for every registered and verified principal P, Login(P.username, pw) with
\* the plaintext whose hash is stored for P answers 200 with a bearer token
\* that decodes, at that moment, to the subject P.username.
C1_LoginSucceeds ==
    [][resp'.op = "login" =>
       \A username \in Usernames, password \in Passwords :
        LET P == get_user_by_username(users, username)
        IN  (/\ P # NoUser
             /\ P.is_verified
             /\ IsHashOf(P.password, password)
             /\ login_user(username, password))
            => /\ resp'.op = "login"
               /\ resp'.status = 200
               /\ resp'.detail = "bearer"
               /\ ~JWTError(resp'.token, now')
               /\ resp'.token.sub = P.username]_vars

C1_Witness ==
    /\ resp.op = "login"
    /\ resp.status = 200
    /\ \E i \in 1..Len(users) :
          /\ users[i].username = resp.token.sub
          /\ users[i].is_verified
          /\ users[i].password # None

\* C2: for every registered principal whose verification flag is false, Login
\* answers 401 and issues no token, whether or not the password is the right one.
C2_UnverifiedLoginFails ==
    [][resp'.op = "login" =>
       \A username \in Usernames, password \in Passwords :
        LET P == get_user_by_username(users, username)
        IN  (/\ P # NoUser
             /\ ~P.is_verified
             /\ login_user(username, password))
            => /\ resp'.op = "login"
               /\ resp'.status = 401
               /\ resp'.token = NoToken]_vars

C2_Witness ==
    /\ resp.op = "login"
    /\ resp.status = 401
    /\ resp.detail = "email not verified"
    /\ \E i \in 1..Len(users) : ~users[i].is_verified /\ users[i].password # None

\* C3: Login with a username that matches no principal answers 401, issues no
\* token and leaves all state unchanged.
C3_UnknownUserLoginFails ==
    [][resp'.op = "login" =>
       \A username \in Usernames, password \in Passwords :
        (/\ login_user(username, password)
         /\ get_user_by_username(users, username) = NoUser)
        => /\ resp'.op = "login"
           /\ resp'.status = 401
           /\ resp'.token = NoToken
           /\ UNCHANGED <<users, tasks, mail, now, pending>>]_vars

\* C4: for a verified principal, Login with a plaintext that does not verify
\* against the stored hash answers 401 and issues no token.
C4_WrongPasswordLoginFails ==
    [][resp'.op = "login" =>
       \A username \in Usernames, password \in Passwords :
        LET P == get_user_by_username(users, username)
        IN  (/\ P # NoUser
             /\ P.is_verified
             /\ ~IsHashOf(P.password, password)
             /\ login_user(username, password))
            => /\ resp'.op = "login"
               /\ resp'.status = 401
               /\ resp'.token = NoToken]_vars

C4_Witness ==
    /\ resp.op = "login"
    /\ resp.status = 401
    /\ resp.detail = "Incorrect email or password"
    /\ \E i \in 1..Len(users) : users[i].is_verified /\ users[i].password # None

----------------------------------------------------------------------------
(* Registration *)

EmailHeld(email) == \E i \in 1..Len(users) : users[i].email = email
UsernameHeld(username) == \E i \in 1..Len(users) : users[i].username = username

\* C5: Register with an email already held by a principal answers 409, also
\* when the username is a new one; no principal is created, none is modified,
\* and no confirmation mail is queued or sent.
C5_DuplicateEmailConflict ==
    [][resp'.op = "register" =>
       \A data \in UserCreate, salt \in Salts :
        (EmailHeld(data.email) /\ register_user(data, salt))
        => /\ resp'.op = "register"
           /\ resp'.status = 409
           /\ users' = users
           /\ tasks' = tasks
           /\ mail' = mail]_vars

C5_Witness ==
    /\ resp.op = "register"
    /\ resp.status = 409
    /\ Len(users) = 1
    /\ tasks = <<>>

\* No two rows share a username, and no two share an email.
UniqueUsers ==
    \A i, j \in 1..Len(users) :
        i # j => /\ users[i].username # users[j].username
                 /\ users[i].email # users[j].email

\* C6: under every interleaving of Register requests no two principals share a
\* username and no two share an email; a Register that finds its email held
\* when it looks it up, or its username or email held when it commits, fails
\* and creates no principal.
C6_UniqueIdentities ==
    /\ []UniqueUsers
    /\ [][\A data \in UserCreate :
            (EmailHeld(data.email) /\ register_begin(data))
            => resp'.status = 409 /\ users' = users /\ pending' = pending]_vars
    /\ [][\A i \in 1..Len(pending), salt \in Salts :
            (/\ \/ EmailHeld(pending[i].email)
                \/ UsernameHeld(pending[i].username)
             /\ register_end(i, salt))
            => resp'.status >= 400 /\ users' = users]_vars

\* Two requests passed the email lookup with one username, one committed, and
\* the other was then refused at its commit.
C6_Witness ==
    /\ Len(users) = 1
    /\ resp.op = "register"
    /\ resp.status = 500
    /\ \E i \in 1..Len(pending) : pending[i].username = users[1].username

\* C7: a successful Register with a fresh username and email appends exactly one
\* row, unverified, holding a hash of the password and not the plaintext, with
\* temp_password null, and queues exactly one confirmation mail for that row;
\* the mail built for a queued confirmation carries a token that decodes to
\* the email it is queued for.
C7_RegisterCreatesUnverified ==
    /\ [][resp'.op = "register" =>
           \A data \in UserCreate, salt \in Salts :
            (/\ ~EmailHeld(data.email)
             /\ ~UsernameHeld(data.username)
             /\ register_user(data, salt))
            => /\ resp'.status = 201
               /\ Len(users') = Len(users) + 1
               /\ SubSeq(users', 1, Len(users)) = users
               /\ LET row == users'[Len(users')]
                  IN  /\ row.username = data.username
                      /\ row.email = data.email
                      /\ row.role = data.role
                      /\ ~row.is_verified
                      /\ IsHashOf(row.password, data.password)
                      /\ row.password # Str(data.password)
                      /\ row.temp_password = None
               /\ tasks' = Append(tasks, Task("confirm", data.email, data.username))]_vars
    /\ [][(run_task(TRUE) /\ Head(tasks).kind = "confirm")
          => /\ mail'.to = Head(tasks).email
             /\ get_email_from_token(mail'.token, now) =
                   [status |-> 200, email |-> Head(tasks).email]]_vars

\* A registration was answered 201 and its confirmation mail went out.
C7_Witness ==
    /\ resp.op = "register"
    /\ resp.status = 201
    /\ tasks = <<>>
    /\ mail.template = "verify_email.html"
    /\ mail.to = users[Len(users)].email
    /\ mail.token.sub = users[Len(users)].email

----------------------------------------------------------------------------
(* Email confirmation *)

\* C8: ConfirmEmail with a token that decodes to an existing principal's email
\* answers 200; it sets that principal's flag if it was false and changes
\* nothing else, and for an already verified principal it changes no state.
C8_ConfirmEmailIdempotent ==
    [][resp'.op = "confirm" =>
       \A token \in Presented :
        LET decoded == get_email_from_token(token, now)
        IN  (/\ decoded.status = 200
             /\ EmailHeld(decoded.email)
             /\ confirmed_email(token))
            => /\ resp'.op = "confirm"
               /\ resp'.status = 200
               /\ Len(users') = Len(users)
               /\ \A i \in 1..Len(users) :
                     IF users[i].email = decoded.email
                     THEN users'[i] = [users[i] EXCEPT !.is_verified = TRUE]
                     ELSE users'[i] = users[i]
               /\ get_user_by_email(users, decoded.email).is_verified
                     => UNCHANGED <<users, tasks, mail, now, pending>>]_vars

\* A second confirmation of a verified email was answered 200, beside a
\* principal that is still unverified.
C8_Witness ==
    /\ resp.op = "confirm"
    /\ resp.status = 200
    /\ resp.detail = "already confirmed"
    /\ \E i \in 1..Len(users) : users[i].is_verified
    /\ \E i \in 1..Len(users) : ~users[i].is_verified

\* C9: ConfirmEmail answers 400 both when the token does not decode (bad
\* signature, expired, no subject) and when its subject is no principal's
\* email, and in both cases no principal changes.
C9_ConfirmEmailBadToken ==
    [][resp'.op = "confirm" =>
       \A token \in Presented :
        LET decoded == get_email_from_token(token, now)
        IN  (/\ confirmed_email(token)
             /\ \/ JWTError(token, now)
                \/ token.sub = NoSub
                \/ ~EmailHeld(decoded.email))
            => /\ resp'.op = "confirm"
               /\ resp'.status = 400
               /\ users' = users]_vars

\* C10: RequestEmailConfirmation answers 200 for a principal's email, queueing
\* nothing when the principal is verified and one confirmation mail when it is
\* not, and changes no principal.
C10_RequestEmail ==
    [][resp'.op = "request_email" =>
       \A email \in Emails :
        LET user == get_user_by_email(users, email)
        IN  (request_email(email) /\ user # NoUser)
            => /\ resp'.op = "request_email"
               /\ resp'.status = 200
               /\ users' = users
               /\ IF user.is_verified
                  THEN tasks' = tasks
                  ELSE tasks' = Append(tasks, Task("confirm", user.email, user.username))]_vars

----------------------------------------------------------------------------
(* Password reset *)

\* The principal a forgot_password identifier resolves to: by email first, by
\* username otherwise.
Identified(user_data) ==
    IF EmailHeld(user_data)
    THEN get_user_by_email(users, user_data)
    ELSE get_user_by_username(users, user_data)

\* Every row but the one with this email is the same before and after.
OthersUnchanged(email) ==
    /\ Len(users') = Len(users)
    /\ \A i \in 1..Len(users) : users[i].email # email => users'[i] = users[i]

\* C11: a ForgotPassword the limiter admits, whose identifier resolves to a
\* principal, whose old_password verifies and whose new_password is another
\* one, answers 200, stores a hash of new_password in temp_password, leaves the
\* password hash as it was, and queues one reset mail whose token decodes to
\* the principal's email.
C11_ForgotPasswordSucceeds ==
    [][resp'.op = "forgot_password" =>
       \A data \in UserForgotPassword :
        LET user == Identified(data.user_data)
        IN  (/\ user # NoUser
             /\ IsHashOf(user.password, data.old_password)
             /\ data.new_password # data.old_password
             /\ forgot_password(FALSE, data))
            => /\ resp'.status = 200
               /\ OthersUnchanged(user.email)
               /\ LET after == get_user_by_email(users', user.email)
                  IN  /\ IsHashOf(after.temp_password, data.new_password)
                      /\ after = [user EXCEPT !.temp_password = after.temp_password]
               /\ tasks' = Append(tasks, Task("reset", user.email, user.username))
               /\ get_email_from_token(
                      send_email_for_reset_password(user.email, user.username, now).token,
                      now) = [status |-> 200, email |-> user.email]]_vars

\* C12: a ForgotPassword the limiter admits answers 404 when its identifier is
\* no principal's email and no principal's username, and 400 when old_password
\* does not verify against the stored hash; either way no row changes and no
\* mail is queued or sent.
C12_ForgotPasswordRejects ==
    [][(resp'.op = "forgot_password" /\ resp'.status # 429) =>
       \A user_data \in Usernames \cup Emails :
        LET user == Identified(user_data)
        IN  \A old_password \in Passwords :
             (\/ user = NoUser
              \/ ~IsHashOf(user.password, old_password))
             => \/ /\ IF user = NoUser
                      THEN resp'.status = 404
                      ELSE /\ resp'.status = 400
                           /\ resp'.detail = "Incorrect old password"
                   /\ users' = users
                   /\ tasks' = tasks
                   /\ mail' = mail
                \/ \A new_password \in Passwords :
                      ~forgot_password(FALSE,
                          [user_data |-> user_data, old_password |-> old_password,
                           new_password |-> new_password])]_vars

\* A wrong old password was refused for a principal that has a password.
C12_Witness ==
    /\ resp.op = "forgot_password"
    /\ resp.status = 400
    /\ resp.detail = "Incorrect old password"
    /\ \E i \in 1..Len(users) : users[i].password # None

\* C13: a ForgotPassword the limiter admits, with the right old_password and a
\* new_password equal to the current one, answers 400 as the same password,
\* leaves temp_password as it was and queues no mail.
C13_SamePasswordRejected ==
    [][resp'.op = "forgot_password" =>
       \A data \in UserForgotPassword :
        LET user == Identified(data.user_data)
        IN  (/\ user # NoUser
             /\ IsHashOf(user.password, data.old_password)
             /\ data.new_password = data.old_password
             /\ forgot_password(FALSE, data))
            => /\ resp'.status = 400
               /\ resp'.detail = "same password"
               /\ users' = users
               /\ tasks' = tasks]_vars

\* C14: ResetPassword with a token that decodes to an existing principal's email
\* answers 200, puts the value of temp_password into password and nulls
\* temp_password, touching nothing else; with a token that does not decode, or
\* whose subject is no principal's email, it answers 400 and changes no state.
C14_ResetPassword ==
    [][resp'.op = "reset_password" =>
       \A token \in Presented :
        LET decoded == get_email_from_token(token, now)
            user == get_user_by_email(users, decoded.email)
        IN  reset_password(token)
            => IF decoded.status = 200 /\ user # NoUser
               THEN /\ resp'.status = 200
                    /\ OthersUnchanged(user.email)
                    /\ get_user_by_email(users', user.email) =
                          [user EXCEPT !.password = user.temp_password,
                                       !.temp_password = None]
               ELSE /\ resp'.status = 400
                    /\ UNCHANGED <<users, tasks, mail, now, pending>>]_vars

\* C15: for a verified principal, a ForgotPassword(id, old, new) with the right
\* old password and another new one answers 200 and queues the reset mail, and
\* the ResetPassword made with that mail's token then leaves a password that
\* new verifies and old does not, so that Login accepts new and refuses old.
C15_ResetRoundTrip ==
    [][resp'.op = "forgot_password" =>
       \A data \in UserForgotPassword :
        LET user == Identified(data.user_data)
        IN  (/\ user # NoUser
             /\ user.is_verified
             /\ IsHashOf(user.password, data.old_password)
             /\ data.new_password # data.old_password
             /\ forgot_password(FALSE, data))
            => /\ resp'.status = 200
               /\ tasks' = Append(tasks, Task("reset", user.email, user.username))
               /\ LET token == send_email_for_reset_password(
                                   user.email, user.username, now).token
                      decoded == get_email_from_token(token, now)
                      target == get_user_by_email(users', decoded.email)
                      after == get_user_by_username(
                                   promote_temp_password(users', target), user.username)
                  IN  /\ decoded.status = 200
                      /\ target # NoUser
                      /\ after.is_verified
                      /\ verify_password(data.new_password, after.password)
                      /\ ~verify_password(data.old_password, after.password)]_vars

\* C16: a row's temp_password becomes non-null only in the row
\* of a ForgotPassword answered 200, it stays non-null only while no
\* ResetPassword for that row is answered 200, and after such a ResetPassword
\* it is null.
C16_TempPasswordNullOutsideReset ==
    /\ [][\A i \in 1..Len(users') :
            users'[i].temp_password # None
            => \/ /\ resp'.op = "forgot_password"
                  /\ resp'.status = 200
                  /\ i <= Len(users)
                  /\ \E data \in UserForgotPassword :
                        /\ Identified(data.user_data) = users[i]
                        /\ forgot_password(FALSE, data)
               \/ /\ i <= Len(users)
                  /\ users[i].temp_password # None
                  /\ ~(/\ resp'.op = "reset_password"
                       /\ resp'.status = 200
                       /\ \E token \in Presented :
                             /\ get_email_from_token(token, now).email = users[i].email
                             /\ reset_password(token))]_vars
    /\ [][resp'.op = "reset_password" =>
           \A token \in Presented :
            LET decoded == get_email_from_token(token, now)
            IN  decoded.status = 200
                => \/ get_user_by_email(users', decoded.email).temp_password = None
                   \/ ~reset_password(token)]_vars

\* A ResetPassword was answered 200 and left its row without a temp_password.
C16_Witness ==
    /\ resp.op = "reset_password"
    /\ resp.status = 200
    /\ Len(users) > 0
    /\ \A i \in 1..Len(users) : users[i].temp_password = None

----------------------------------------------------------------------------
(* Identity resolution *)

\* The token does not decode at instant t, or carries no subject.
BadBearer(token, t) ==
    \/ token.sig # "secret"
    \/ token.exp # NoTime /\ token.exp < t
    \/ token.sub = NoSub
    \/ token.sub = ""

\* C17: with a cache backend that answers, the resolver answers 401 and reads
\* neither the cache nor the table for a bearer token whose signature does not
\* verify, that has expired, or that has no subject or an empty one; and it
\* answers 401 for a token whose subject is no row's username.
C17_ResolverRejects ==
    [][(got' # got \/ cache' # cache) =>
       \A token \in BearerTokens :
        (\/ BadBearer(token, now)
         \/ \A i \in 1..Len(users) : users[i].username # token.sub)
        => \/ /\ got'.status = 401
              /\ got'.user = NoUser
              /\ cache' = cache
              /\ BadBearer(token, now) => got'.touched = {}
           \/ ~get_current_user(token, FALSE, FALSE)]_vars

\* A token was refused without a read while the cache held a live entry.
C17_Witness ==
    /\ got.status = 401
    /\ got.touched = {}
    /\ \E key \in Usernames : Live(cache, key, now)

\* C18: whenever the resolver returns a row for a token, the row's username is
\* the token's subject and the row is the one now stored under that username;
\* a token whose subject is no row's username (the row was deleted or renamed)
\* is answered 401, also while the cache entry of that subject is live.
C18_SubjectIsCurrentUsername ==
    [][(got' # got \/ cache' # cache) =>
       \A token \in BearerTokens :
        get_current_user(token, FALSE, FALSE)
        => /\ got'.status = 200
              => /\ got'.user.username = token.sub
                 /\ got'.user = get_user_by_username(users, token.sub)
           /\ (\A i \in 1..Len(users) : users[i].username # token.sub)
              => got'.status = 401]_vars

\* C19: with a cache backend that answers, a resolution that returns a row
\* leaves a cache entry for the token's subject that holds the row's id and,
\* when just written, lives for CACHE_SECONDS; and the resolution of a good
\* token whose subject has a live entry reads the row by id, does no lookup by
\* username, writes nothing, and returns the row of that id, which is the row
\* stored under the subject.
C19_CachedResolution ==
    [][(got' # got \/ cache' # cache) =>
       \A token \in BearerTokens :
        ~BadBearer(token, now)
        => \/ /\ got'.status = 200
                 => /\ Live(cache', token.sub, now)
                    /\ cache'[token.sub].id = got'.user.id
                    /\ "cache_set" \in got'.touched
                       => cache'[token.sub].until = now + CACHE_SECONDS
              /\ Live(cache, token.sub, now)
                 => /\ got'.status = 200
                    /\ got'.touched = {"cache_get", "by_id"}
                    /\ got'.user.id = cache[token.sub].id
                    /\ got'.user = get_user_by_username(users, token.sub)
                    /\ cache' = cache
           \/ ~get_current_user(token, FALSE, FALSE)]_vars

\* A resolution late in the life of a cache entry was served by id alone.
C19_Witness ==
    /\ got.status = 200
    /\ got.touched = {"cache_get", "by_id"}
    /\ now = CACHE_SECONDS - 1

\* C20: whether or not the cache backend raises on get or on set, the resolver
\* returns the row stored under the subject of every good token whose subject
\* is a row's username.
C20_CacheFailureTolerated ==
    [][(got' # got \/ cache' # cache) =>
       \A token \in BearerTokens, get_raises \in BOOLEAN, set_raises \in BOOLEAN :
        LET user == get_user_by_username(users, token.sub)
        IN  (/\ ~BadBearer(token, now)
             /\ user # NoUser
             /\ get_current_user(token, get_raises, set_raises))
            => /\ got'.status = 200
               /\ got'.user = user]_vars

----------------------------------------------------------------------------
(* Access control *)

\* C21: the admin gate returns a stored principal unchanged exactly when its
\* role is admin and answers 403 otherwise; and an avatar update changes the
\* table only when its token resolved to a principal whose role is admin, in
\* which case it sets that principal's avatar_url and nothing else; when the
\* resolution fails it answers as the resolver did, and when the role is not
\* admin it answers 403, with the table as it was.
C21_AdminGate ==
    /\ [](\A i \in 1..Len(users) :
            get_current_admin_user(users[i]) =
                IF users[i].role = "admin"
                THEN [status |-> 200, user |-> users[i]]
                ELSE [status |-> 403, user |-> NoUser])
    /\ [][(resp'.op = "update_avatar" /\ now' = now /\ tasks' = tasks) =>
           \A token \in BearerTokens, avatar_url \in AvatarUrls :
            LET P == get_user_by_username(users, token.sub)
                passes == ~BadBearer(token, now) /\ P # NoUser /\ P.role = "admin"
            IN  \/ /\ users' # users => passes
                   /\ IF got'.status = 200 /\ got'.user.role = "admin"
                      THEN /\ resp'.status = 200
                           /\ users' = update_avatar_url(users, got'.user.email, avatar_url)
                      ELSE /\ users' = users
                           /\ resp'.status = (IF got'.status # 200 THEN got'.status ELSE 403)
                \/ ~update_avatar_user(token, avatar_url)]_vars

\* An admin's avatar was updated.
C21_Witness ==
    /\ resp.op = "update_avatar"
    /\ resp.status = 200
    /\ got.user.role = "admin"
    /\ \E i \in 1..Len(users) : users[i].avatar_url # NoAvatar

----------------------------------------------------------------------------
(* Mail dispatch *)

\* C22: when a queued mail task runs, delivered or not, the response already
\* given and every row of the table stay as they were; a failed delivery
\* leaves no trace but the task being gone.
C22_MailFailureSwallowed ==
    [][Len(tasks') < Len(tasks) =>
       \A delivered \in BOOLEAN :
        \/ /\ users' = users
           /\ resp' = resp
           /\ ~delivered => mail' = mail
        \/ ~run_task(delivered)]_vars

\* The confirmation mail of a registration was lost; the 201 and the row stand.
C22_Witness ==
    /\ resp.op = "register"
    /\ resp.status = 201
    /\ Len(users) = 1
    /\ tasks = <<>>
    /\ mail = NoMail

----------------------------------------------------------------------------
(* Atomicity of the reset *)

\* A row whose password was already replaced by its temp_password while the
\* temp_password is still there.
HalfReset(row) ==
    row.temp_password # None /\ row.password = row.temp_password

----------------------------------------------------------------------------
(* Token decoding *)

\* The token fails one of the checks of decoding at instant t: its signature,
\* its expiry, or the presence of its subject.
Undecodable(token, t) ==
    \/ token.sig # "secret"
    \/ token.exp # NoTime /\ token.exp < t
    \/ token.sub = NoSub

\* C24: each operation that consumes a token answers every undecodable token
\* alike, whichever check it fails: ConfirmEmail and ResetPassword give an
\* undecodable token the status they give any other undecodable token, and
\* the resolver refuses every one of them.
C24_UniformDecodeFailure ==
    /\ [](\A token \in BearerTokens :
            Undecodable(token, now) => TokenRejected(token, now))
    /\ [][resp'.op \in {"confirm", "reset_password"} =>
           \A token \in Presented :
            Undecodable(token, now)
            => \/ \A other \in Presented :
                    Undecodable(other, now)
                    => resp'.status = get_email_from_token(other, now).status
               \/ ~(confirmed_email(token) \/ reset_password(token))]_vars

\* The session lifetimes passed explicitly to create_access_token.
ExplicitSeconds == {60}

\* C25: a session token issued at t expires at t plus the configured lifetime,
\* or plus the lifetime passed; a purpose token issued at t expires at t plus
\* seven days; and an operation that consumes a token accepts it only while
\* the clock is before its expiry and refuses it after.
C25_TokenExpiry ==
    /\ [](\A sub \in Usernames, delta \in ExplicitSeconds :
            /\ create_access_token(sub, now).exp = now + JWT_EXPIRATION_SECONDS
            /\ create_access_token_for(sub, now, delta).exp = now + delta
            /\ create_email_token(sub, now).exp = now + EmailTokenSeconds)
    /\ [][(resp' # resp /\ resp'.op = "login" /\ resp'.status = 200)
           => resp'.token.exp = now + JWT_EXPIRATION_SECONDS]_vars
    /\ [][mail' # mail => mail'.token.exp = now + EmailTokenSeconds]_vars
    /\ [][got' # got =>
           \/ /\ got'.status = 200 => now < resp.token.exp
              /\ now > resp.token.exp => got'.status = 401
           \/ ~get_current_user(resp.token, FALSE, FALSE)]_vars
    /\ [][(resp' # resp /\ resp'.op \in {"confirm", "reset_password"}) =>
           \/ /\ resp'.status = 200 => now < mail.token.exp
              /\ now > mail.token.exp => resp'.status # 200
           \/ ~(confirmed_email(mail.token) \/ reset_password(mail.token))]_vars

----------------------------------------------------------------------------
(* Purpose tokens *)

\* C26: the token of a confirmation mail and the token of a reset mail made
\* for the same email at the same instant are the same token; ResetPassword
\* accepts the token of a confirmation mail for an existing principal and
\* promotes whatever temp_password holds; ConfirmEmail accepts a token of the
\* form the reset mail carries.
C26_PurposeTokensInterchangeable ==
    /\ [](\A email \in Emails, username \in Usernames :
            send_email_for_confirm(email, username, now).token =
                send_email_for_reset_password(email, username, now).token)
    /\ [][(resp'.op \in {"confirm", "reset_password"} /\ now' = now /\ mail' = mail) =>
           LET user == get_user_by_email(users, mail.to)
           IN  (/\ mail.template = "verify_email.html"
                /\ user # NoUser
                /\ ~JWTError(mail.token, now))
               => /\ \/ /\ resp'.status = 200
                        /\ users' = promote_temp_password(users, user)
                     \/ ~reset_password(mail.token)
                  /\ \/ mail.token # send_email_for_reset_password(
                                          mail.to, mail.username, mail.token.iat).token
                     \/ resp'.status = 200
                     \/ ~confirmed_email(mail.token)]_vars

\* A ResetPassword was accepted while the only mail sent was a confirmation
\* mail, and it promoted the null temp_password of that mail's principal.
C26_Witness ==
    /\ resp.op = "reset_password"
    /\ resp.status = 200
    /\ mail.template = "verify_email.html"
    /\ Len(users) = 1
    /\ users[1].email = mail.to
    /\ users[1].password = None

\* C27: every row has a non-null password in every reachable state, and a
\* ResetPassword made while the principal's temp_password is null (a token
\* already consumed, or any purpose token) leaves the principal's password as
\* it was.
C27_PasswordNeverNull ==
    /\ [](\A i \in 1..Len(users) : users[i].password # None)
    /\ [][resp'.op = "reset_password" =>
           \A token \in Presented :
            LET decoded == get_email_from_token(token, now)
                user == get_user_by_email(users, decoded.email)
            IN  (decoded.status = 200 /\ user # NoUser /\ user.temp_password = None)
                => \/ get_user_by_email(users', user.email).password = user.password
                   \/ ~reset_password(token)]_vars

----------------------------------------------------------------------------
(* Freshness of the resolved principal *)

\* C28: a cache entry holds an id and its time to live, nothing of the row;
\* every resolution that returns a principal has fetched a row and returns the
\* row as now stored, role and verification flag included, on a hit as on a
\* miss; and the avatar update of a good token is answered by the role now
\* stored for its principal, 200 for admin and 403 otherwise, whatever the
\* cache holds.
C28_ResolvedRowIsCurrent ==
    /\ [](\A key \in CacheKeys : DOMAIN cache[key] = {"id", "until"})
    /\ [][(got' # got /\ got'.status = 200)
           => /\ got'.user = get_user_by_id(users, got'.user.id)
              /\ got'.touched \cap {"by_id", "by_username"} # {}]_vars
    /\ [][(resp'.op = "update_avatar" /\ now' = now /\ tasks' = tasks) =>
           \A token \in BearerTokens, avatar_url \in AvatarUrls :
            LET P == get_user_by_username(users, token.sub)
            IN  (~BadBearer(token, now) /\ P # NoUser)
                => \/ resp'.status = (IF P.role = "admin" THEN 200 ELSE 403)
                   \/ ~update_avatar_user(token, avatar_url)]_vars

\* A principal registered as admin and since demoted was resolved from a live
\* cache entry and refused at the gate.
C28_Witness ==
    /\ resp.op = "update_avatar"
    /\ resp.status = 403
    /\ got.status = 200
    /\ got.touched = {"cache_get", "by_id"}
    /\ got.user.username = "alice"
    /\ got.user.role = "user"

\* C29: when the cache holds a live id for the subject of a good token and no
\* row has that id, the resolver looks the subject up by username; if a row is
\* found it is returned and the entry is overwritten with its id and a life of
\* CACHE_SECONDS, otherwise the answer is 401 and the cache is as it was.  A
\* resolution writes the cache only after a lookup by username that found a
\* row, and never on a cache hit.
C29_StaleEntryFallback ==
    [][(got' # got \/ cache' # cache) =>
       \A token \in BearerTokens :
        LET user == get_user_by_username(users, token.sub)
            stale == /\ ~BadBearer(token, now)
                     /\ Live(cache, token.sub, now)
                     /\ get_user_by_id(users, cache[token.sub].id) = NoUser
        IN  \/ /\ stale =>
                    IF user # NoUser
                    THEN /\ got'.status = 200
                         /\ got'.user = user
                         /\ got'.touched =
                               {"cache_get", "by_id", "by_username", "cache_set"}
                         /\ cache' = [cache EXCEPT ![token.sub] =
                                         [id |-> user.id, until |-> now + CACHE_SECONDS]]
                    ELSE /\ got'.status = 401
                         /\ cache' = cache
               /\ cache' # cache
                  => got'.status = 200 /\ "by_username" \in got'.touched
               /\ got'.touched = {"cache_get", "by_id"} => cache' = cache
            \/ ~get_current_user(token, FALSE, FALSE)]_vars

\* A resolution found a cached id that no row has, fell back to the username
\* and wrote the cache again.
C29_Witness ==
    /\ got.status = 200
    /\ got.touched = {"cache_get", "by_id", "by_username", "cache_set"}
    /\ Live(cache, got.user.username, now)
    /\ cache[got.user.username].id = got.user.id

\* C30: the resolver authenticates a token only as the principal it was
\* issued for: the token of a login resolves to the principal that logged in,
\* and the token of a mail sent to a principal's email resolves to no
\* principal with another email.
C30_ResolvesOnlyIssuedPrincipal ==
    [][(got' # got /\ got'.status = 200) =>
       /\ (resp.op = "login" /\ resp.status = 200)
          => \/ got'.user.username = resp.token.sub
             \/ ~get_current_user(resp.token, FALSE, FALSE)
       /\ mail # NoMail
          => \/ got'.user.email = mail.to
             \/ ~get_current_user(mail.token, FALSE, FALSE)]_vars

\* C31: with ForgotPassword and ResetPassword requests for one principal
\* interleaved in any way, a ForgotPassword request with the right old password
\* and another new one emits a reset token, and the ResetPassword performed
\* with that token activates the new password of that request.
C31_ResetActivatesRequestedPassword ==
    [][resp'.op = "forgot_password" =>
       \A data \in UserForgotPassword :
        LET user == Identified(data.user_data)
            token == send_email_for_reset_password(
                         user.email, user.username, now).token
            decoded == get_email_from_token(token, now)
            target == get_user_by_email(users', decoded.email)
            activated == get_user_by_email(
                             set_new_password(users', target.temp_password, target.email),
                             user.email)
        IN  (/\ user # NoUser
             /\ IsHashOf(user.password, data.old_password)
             /\ data.new_password # data.old_password)
            => \/ /\ resp'.status = 200
                  /\ tasks' = Append(tasks, Task("reset", user.email, user.username))
                  /\ decoded.status = 200
                  /\ target # NoUser
                  /\ IsHashOf(activated.password, data.new_password)
               \/ ~forgot_password(FALSE, data)]_vars

\* The principal a request is made by: the one its bearer token names, if the
\* token is good.
Requester(token) ==
    IF BadBearer(token, now) THEN NoUser ELSE get_user_by_username(users, token.sub)

\* A request to one of the contacts routes, with this bearer token.
ContactRequest(token) ==
    \/ \E data \in ContactCreate : create(token, data)
    \/ \E q \in Queries : list_contacts(token, q)
    \/ \E contact_id \in ContactIds : get(token, contact_id)
    \/ \E contact_id \in ContactIds, data \in ContactUpdate :
          update(token, contact_id, data)
    \/ \E contact_id \in ContactIds : delete(token, contact_id)
    \/ birthdays(token)

ContactOps ==
    {"create_contact", "list_contacts", "get_contact", "update_contact",
     "delete_contact", "birthdays"}

\* The rows a step returned, changed, deleted or created.
Touched ==
    body' \cup {contacts[i] : i \in {j \in 1..Len(contacts) : contacts'[j] # contacts[j]}}
          \cup {contacts'[i] : i \in (Len(contacts) + 1)..Len(contacts')}

\* C32: the list route returns exactly the contacts owned by the authenticated
\* principal that match the query; no request to a contacts route returns,
\* changes or deletes a contact owned by another principal than the requester;
\* and a request without a bearer token that resolves is answered 401 and
\* returns and changes nothing.
C32_ContactsPerUser ==
    /\ [][resp'.op = "list_contacts" =>
           \A token \in RequestTokens, q \in Queries :
            \/ IF Requester(token) = NoUser
               THEN resp'.status = 401 /\ body' = {}
               ELSE /\ resp'.status = 200
                    /\ body' = {contact \in Rows(contacts) :
                                  /\ contact.user_id = Requester(token).id
                                  /\ \/ q = NoQuery
                                     \/ ilike(contact.name, q)
                                     \/ ilike(contact.email, q)}
            \/ ~list_contacts(token, q)]_vars
    /\ [][resp'.op \in ContactOps =>
           \A token \in RequestTokens :
            \/ IF Requester(token) = NoUser
               THEN resp'.status = 401 /\ body' = {} /\ contacts' = contacts
               ELSE \A contact \in Touched : contact.user_id = Requester(token).id
            \/ ~ContactRequest(token)]_vars

\* The ids of the contacts now in the store.
StoredIds == {contact.id : contact \in Rows(contacts)}

\* C33: get, update and delete of an id that is not in the store answer 404 and
\* leave the store as it was; create answers with a row under an id never
\* given out before, get of an id in the store returns the row stored under
\* it, a row leaves the store only by a delete of its id answered 200, which
\* removes it, and an id that has left the store never comes back.
C33_ContactLifetime ==
    /\ [][resp'.op \in {"get_contact", "update_contact", "delete_contact"} =>
           \A token \in RequestTokens, contact_id \in ContactIds :
            \/ contact_id \in StoredIds
            \/ resp'.status = 404 /\ contacts' = contacts /\ body' = {}
            \/ ~(\/ get(token, contact_id)
                 \/ delete(token, contact_id)
                 \/ \E data \in ContactUpdate : update(token, contact_id, data))]_vars
    /\ [][Len(contacts') # Len(contacts) =>
           \E contact \in body' :
            /\ resp'.op = "create_contact"
            /\ resp'.status = 201
            /\ body' = {contact}
            /\ contact.id \notin 1..Len(contacts)
            /\ contact.id \in 1..Len(contacts')
            /\ contacts'[contact.id] = contact
            /\ \A i \in 1..Len(contacts) : contacts'[i] = contacts[i]]_vars
    /\ [][resp'.op = "get_contact" =>
           \A token \in RequestTokens, contact_id \in StoredIds :
            \/ /\ resp'.status = 200
               /\ body' = {contact \in Rows(contacts) : contact.id = contact_id}
               /\ contacts' = contacts
            \/ ~get(token, contact_id)]_vars
    /\ [][\A i \in 1..Len(contacts) :
            /\ contacts[i] = NoContact => contacts'[i] = NoContact
            /\ contacts'[i] # NoContact => contacts'[i].id = i
            /\ (contacts[i] # NoContact /\ contacts'[i] = NoContact)
               => /\ resp'.op = "delete_contact"
                  /\ resp'.status = 200
                  /\ \E token \in RequestTokens : delete(token, i)]_vars
    /\ [][(resp'.op = "delete_contact" /\ resp'.status = 200) =>
           \A token \in RequestTokens, contact_id \in ContactIds :
            \/ /\ contact_id \in StoredIds
               /\ contact_id \notin {contact.id : contact \in Rows(contacts')}
            \/ ~delete(token, contact_id)]_vars

\* A contact was created and deleted, and a later get of its id was answered
\* 404 while another contact is in the store.
C33_Witness ==
    /\ resp.op = "get_contact"
    /\ resp.status = 404
    /\ \E i \in 1..Len(contacts) : contacts[i] = NoContact
    /\ StoredIds # {}

\* C34: a verified principal stays verified through every Register, Login,
\* ConfirmEmail, RequestEmailConfirmation, ForgotPassword, ResetPassword and
\* avatar update, no principal is registered verified, and a principal becomes
\* verified only by a ConfirmEmail whose token decodes to its email.
C34_VerifiedMonotonic ==
    /\ [][\A i \in 1..Len(users) :
            users[i].is_verified => i <= Len(users') /\ users'[i].is_verified]_vars
    /\ [][users' # users =>
           \A i \in 1..Len(users') :
            (users'[i].is_verified /\ (i > Len(users) \/ ~users[i].is_verified))
            => /\ i <= Len(users)
               /\ resp'.op = "confirm"
               /\ resp'.status = 200
               /\ \E token \in Presented :
                     /\ get_email_from_token(token, now).status = 200
                     /\ get_email_from_token(token, now).email = users[i].email
                     /\ confirmed_email(token)]_vars

\* A verified principal has had its password reset and its avatar changed, and
\* is verified still.
C34_Witness ==
    \E i \in 1..Len(users) :
        /\ users[i].is_verified
        /\ users[i].password = None
        /\ users[i].avatar_url # NoAvatar

\* The columns of a row that a step changes.
Changed(i) == {column \in DOMAIN users[i] : users'[i][column] # users[i][column]}

\* C35: no step changes the id, username, email or role of a registered
\* principal; a step that changes the table either adds one row and leaves the
\* others as they were, or changes one row only, and in it only the column of
\* the operation: is_verified by a ConfirmEmail for its email, temp_password by
\* a ForgotPassword that identifies it, password and temp_password by a
\* ResetPassword for its email, avatar_url by an avatar update of the
\* principal itself.
C35_IdentityFixed ==
    /\ [][\A i \in 1..Len(users) :
            /\ i <= Len(users')
            /\ users'[i].id = users[i].id
            /\ users'[i].username = users[i].username
            /\ users'[i].email = users[i].email
            /\ users'[i].role = users[i].role]_vars
    /\ [][users' # users =>
           \/ /\ Len(users') = Len(users) + 1
              /\ resp'.op = "register"
              /\ \A i \in 1..Len(users) : users'[i] = users[i]
           \/ /\ Len(users') = Len(users)
              /\ \E i \in 1..Len(users) :
                  /\ \A j \in 1..Len(users) : j # i => users'[j] = users[j]
                  /\ \/ /\ Changed(i) = {"is_verified"}
                        /\ \E token \in Presented :
                              /\ get_email_from_token(token, now).email = users[i].email
                              /\ confirmed_email(token)
                     \/ /\ Changed(i) = {"temp_password"}
                        /\ \E data \in UserForgotPassword :
                              /\ Identified(data.user_data) = users[i]
                              /\ forgot_password(FALSE, data)
                     \/ /\ Changed(i) \subseteq {"password", "temp_password"}
                        /\ \E token \in Presented :
                              /\ get_email_from_token(token, now).email = users[i].email
                              /\ reset_password(token)
                     \/ /\ Changed(i) = {"avatar_url"}
                        /\ \E token \in RequestTokens, avatar_url \in AvatarUrls :
                              /\ token.sub = users[i].username
                              /\ update_avatar_user(token, avatar_url)]_vars

\* The avatar of one of two principals was changed and the other row has none;
\* the first has also been confirmed and has had its password reset.
C35_Witness ==
    /\ Len(users) = 2
    /\ resp.op = "update_avatar"
    /\ resp.status = 200
    /\ \E i, j \in 1..Len(users) :
          /\ users[i].avatar_url # NoAvatar
          /\ users[i].is_verified
          /\ users[i].password = None
          /\ users[j].avatar_url = NoAvatar

====
